---- MODULE Spec2Model ----
(***************************************************************************)
(* A model of go-ripgrep (src/main_v2.go): the directory walk with its     *)
(* hidden / ignore / binary filters, the line scanner, the match predicate *)
(* and the highlight renderer.                                             *)
(*                                                                         *)
(* Strings are Go strings: sequences of bytes (0..255).  Offsets are Go's  *)
(* 0-based byte offsets; Slice(s, a, b) is s[a:b].                         *)
(***************************************************************************)
EXTENDS Integers, Sequences, FiniteSets, TLC

VARIABLES
    txt,      \* the text engine's run: matchesPattern / highlightMatches on one (line, pattern)
    wild,     \* the ignore filter's run: matchGitignorePattern on one (path, pattern)
    tree,     \* the file system under the search path
    config,   \* Config, as main() fills it from the command line
    pc,       \* where the process is: "main", "walk", "scan", "done"
    filter,   \* gitignoreFilter: [nil, patterns]
    todo,     \* filepath.Walk's remaining entries, in visiting order
    cur,      \* searchInFile's open file: its node, or NoFile
    scanPos,  \* the scanner's byte offset in the open file
    lineNum,  \* searchInFile's lineNum
    stdout,   \* the records printMatch has written, in order
    stderr,   \* what main() wrote to the error stream
    exitCode, \* the process's exit code, -1 while it runs
    visited,  \* the entries the walk callback was called for
    pruned,   \* the directories the callback answered SkipDir for
    scanned,  \* the files searchInFile was called for
    tooLong   \* the files whose scan ended with bufio.ErrTooLong

vars == <<txt, wild, tree, config, pc, filter, todo, cur, scanPos, lineNum,
          stdout, stderr, exitCode, visited, pruned, scanned, tooLong>>

walkVars == <<tree, config, pc, filter, todo, cur, scanPos, lineNum,
              stdout, stderr, exitCode, visited, pruned, scanned, tooLong>>

----------------------------------------------------------------------------
(* Bounds of the inputs the text specifications enumerate.                 *)

MaxLineRunes == 3
MaxPatRunes == 2
MaxWildLen == 4

\* The value of txt and of wild in the runs that do not use them.
TxtIdle == [stage |-> "idle"]
WildIdle == [stage |-> "idle"]

----------------------------------------------------------------------------
(* Go's strings package, on byte sequences.                                *)

Slice(s, a, b) == SubSeq(s, a + 1, b)

HasPrefix(s, p) == Len(s) >= Len(p) /\ SubSeq(s, 1, Len(p)) = p

HasSuffix(s, p) == Len(s) >= Len(p) /\ SubSeq(s, Len(s) - Len(p) + 1, Len(s)) = p

TrimPrefix(s, p) == IF HasPrefix(s, p) THEN Slice(s, Len(p), Len(s)) ELSE s

TrimSuffix(s, p) == IF HasSuffix(s, p) THEN Slice(s, 0, Len(s) - Len(p)) ELSE s

\* strings.Index: the first offset at which sub occurs in s, or -1.
Index(s, sub) ==
    LET at == {i \in 0..(Len(s) - Len(sub)) : Slice(s, i, i + Len(sub)) = sub}
    IN  IF at = {} THEN -1 ELSE CHOOSE i \in at : \A j \in at : i <= j

Contains(s, sub) == Index(s, sub) >= 0

\* strings.ReplaceAll for a non-empty old: leftmost non-overlapping occurrences.
RECURSIVE ReplaceAll(_, _, _)
ReplaceAll(s, old, new) ==
    LET i == Index(s, old)
    IN  IF old = <<>> \/ i = -1 THEN s
        ELSE Slice(s, 0, i) \o new \o ReplaceAll(Slice(s, i + Len(old), Len(s)), old, new)

\* len(strings.Split(s, sep)) for a one-byte sep: the number of sep in s, plus one.
SplitCount(s, sep) == Cardinality({i \in 1..Len(s) : s[i] = sep}) + 1

\* UTF-8 continuation byte.
IsCont(b) == b >= 128 /\ b <= 191

\* utf8.DecodeRuneInString(s): the width of the first rune of a non-empty s; an
\* invalid or truncated encoding has width 1 (and decodes to utf8.RuneError).
RuneWidth(s) ==
    LET b == s[1]
        n == Len(s)
    IN  IF b < 128 THEN 1
        ELSE IF b >= 194 /\ b <= 223 /\ n >= 2 /\ IsCont(s[2]) THEN 2
        ELSE IF /\ b >= 224 /\ b <= 239 /\ n >= 3 /\ IsCont(s[2]) /\ IsCont(s[3])
                /\ (b = 224 => s[2] >= 160) /\ (b = 237 => s[2] <= 159) THEN 3
        ELSE IF /\ b >= 240 /\ b <= 244 /\ n >= 4
                /\ IsCont(s[2]) /\ IsCont(s[3]) /\ IsCont(s[4])
                /\ (b = 240 => s[2] >= 144) /\ (b = 244 => s[2] <= 143) THEN 4
        ELSE 1

\* unicode.ToLower on one validly encoded rune r, given and returned in UTF-8.
\* The table holds the runes the inputs below are built from: A-Z, U+212A
\* KELVIN SIGN (E2 84 AA) whose lower case is "k", and U+023A (C8 BA) whose
\* lower case is U+2C65 (E2 B1 A5); every other rune in play is its own lower case.
LowerRune(r) ==
    IF Len(r) = 1 /\ r[1] >= 65 /\ r[1] <= 90 THEN <<r[1] + 32>>
    ELSE IF r = <<226, 132, 170>> THEN <<107>>
    ELSE IF r = <<200, 186>> THEN <<226, 177, 165>>
    ELSE r

\* strings.Map(unicode.ToLower, s): rune by rune; a byte that is no valid
\* encoding is written as U+FFFD (EF BF BD).
RECURSIVE MapLower(_)
MapLower(s) ==
    IF s = <<>> THEN <<>>
    ELSE LET w == RuneWidth(s)
             out == IF w = 1 /\ s[1] >= 128 THEN <<239, 191, 189>>
                    ELSE LowerRune(SubSeq(s, 1, w))
         IN  out \o MapLower(SubSeq(s, w + 1, Len(s)))

\* strings.ToLower: bytewise on an all-ASCII string, strings.Map otherwise.
ToLower(s) ==
    IF \A i \in 1..Len(s) : s[i] < 128
    THEN IF s = <<>> THEN <<>>
         ELSE [i \in 1..Len(s) |-> IF s[i] >= 65 /\ s[i] <= 90 THEN s[i] + 32 ELSE s[i]]
    ELSE MapLower(s)

----------------------------------------------------------------------------
(* The match predicate and the highlight renderer.                         *)

\* "\033[31m" and "\033[0m"
ColorRed == <<27, 91, 51, 49, 109>>
ColorReset == <<27, 91, 48, 109>>

\* The match predicate with the pattern left in its own case.
matchesPatternKeepsPatternCase(line, pattern, fixedStrings, ignoreCase) ==
    Contains(IF ignoreCase THEN ToLower(line) ELSE line, pattern)

matchesPattern(line, pattern, fixedStrings, ignoreCase) ==
    LET l == IF ignoreCase THEN ToLower(line) ELSE line
        p == IF ignoreCase THEN ToLower(pattern) ELSE pattern
    IN  IF fixedStrings THEN Contains(l, p) ELSE Contains(l, p)

\* The for loop of highlightIgnoreCase.  A slice out of range is a run-time
\* panic: the function returns nothing.  steps lists lastIndex at the start of
\* every iteration.
RECURSIVE hicLoop(_, _, _, _, _, _, _)
hicLoop(line, pattern, lowerLine, lowerPattern, lastIndex, result, steps) ==
    LET here == Append(steps, lastIndex) IN
    IF lastIndex > Len(lowerLine)
    THEN [out |-> result, panic |-> TRUE, steps |-> here]
    ELSE
      LET index == Index(Slice(lowerLine, lastIndex, Len(lowerLine)), lowerPattern)
          actualIndex == lastIndex + index
      IN  IF index = -1 \/ actualIndex + Len(pattern) > Len(line)
          THEN IF lastIndex > Len(line)
               THEN [out |-> result, panic |-> TRUE, steps |-> here]
               ELSE [out |-> result \o Slice(line, lastIndex, Len(line)),
                     panic |-> FALSE, steps |-> here]
          ELSE hicLoop(line, pattern, lowerLine, lowerPattern,
                       actualIndex + Len(pattern),
                       result \o Slice(line, lastIndex, actualIndex)
                              \o ColorRed
                              \o Slice(line, actualIndex, actualIndex + Len(pattern))
                              \o ColorReset,
                       here)

highlightIgnoreCase(line, pattern) ==
    IF Len(line) = 0 \/ Len(pattern) = 0
    THEN [out |-> line, panic |-> FALSE, steps |-> <<>>]
    ELSE hicLoop(line, pattern, ToLower(line), ToLower(pattern), 0, <<>>, <<>>)

highlightMatches(line, pattern, fixedStrings, ignoreCase) ==
    IF Len(pattern) = 0 THEN [out |-> line, panic |-> FALSE, steps |-> <<>>]
    ELSE IF ignoreCase THEN highlightIgnoreCase(line, pattern)
    ELSE [out |-> ReplaceAll(line, pattern, ColorRed \o pattern \o ColorReset),
          panic |-> FALSE, steps |-> <<>>]

----------------------------------------------------------------------------
(* The ignore filter's pattern matching.                                   *)

\* "*", "/", "!", "."
Star == <<42>>
Slash == <<47>>
Bang == <<33>>
Dot == <<46>>

matchWildcard(text, pattern) ==
    IF pattern = Star THEN TRUE
    ELSE IF HasPrefix(pattern, Star \o Dot)
    THEN HasSuffix(text, TrimPrefix(pattern, Star))
    ELSE IF SplitCount(pattern, 42) = 2
    THEN LET k == Index(pattern, Star)
         IN  /\ HasPrefix(text, Slice(pattern, 0, k))
             /\ HasSuffix(text, Slice(pattern, k + 1, Len(pattern)))
    ELSE FALSE

\* filepath.Base of a cleaned, slash-separated relative path: its last element.
Base(path) ==
    LET sl == {i \in 1..Len(path) : path[i] = 47}
    IN  IF sl = {} THEN path
        ELSE SubSeq(path, (CHOOSE i \in sl : \A j \in sl : j <= i) + 1, Len(path))

matchGitignorePattern(path, pattern0) ==
    LET pattern == TrimPrefix(pattern0, Slash)
    IN  IF HasPrefix(pattern, Bang) THEN FALSE
        ELSE IF HasSuffix(pattern, Slash) THEN Contains(path, TrimSuffix(pattern, Slash))
        ELSE IF Contains(pattern, Star) THEN matchWildcard(path, pattern)
        ELSE IF Contains(path, pattern) THEN TRUE
        ELSE Base(path) = pattern

----------------------------------------------------------------------------
(* The walk's filters.                                                     *)

\* Scaled stand-ins for the three size limits of the scanner, in their source
\* order 512 < 32768 < 10*1024*1024: the bytes isBinaryFile reads, the longest
\* line shown in full, and the scanner's maximum token size.
SniffSize == 3
DisplayLimit == 4
MaxLineSize == 8

\* "... [line truncated]"
TruncationMarker ==
    <<46, 46, 46, 32, 91, 108, 105, 110, 101, 32, 116, 114, 117, 110, 99, 97, 116, 101, 100, 93>>

\* .exe .dll .so .dylib .a .o .obj .zip .tar .gz .bz2 .xz .7z .rar .jpg .jpeg
\* .png .gif .bmp .tiff .ico .mp3 .mp4 .avi .mkv .mov .wmv .flv .pdf .doc .docx
\* .xls .xlsx .ppt .pptx .bin .dat .db .sqlite .sqlite3 .pyc .class .jar
binaryExts == {
    <<46, 101, 120, 101>>, <<46, 100, 108, 108>>, <<46, 115, 111>>,
    <<46, 100, 121, 108, 105, 98>>, <<46, 97>>, <<46, 111>>, <<46, 111, 98, 106>>,
    <<46, 122, 105, 112>>, <<46, 116, 97, 114>>, <<46, 103, 122>>,
    <<46, 98, 122, 50>>, <<46, 120, 122>>, <<46, 55, 122>>, <<46, 114, 97, 114>>,
    <<46, 106, 112, 103>>, <<46, 106, 112, 101, 103>>, <<46, 112, 110, 103>>,
    <<46, 103, 105, 102>>, <<46, 98, 109, 112>>, <<46, 116, 105, 102, 102>>,
    <<46, 105, 99, 111>>, <<46, 109, 112, 51>>, <<46, 109, 112, 52>>,
    <<46, 97, 118, 105>>, <<46, 109, 107, 118>>, <<46, 109, 111, 118>>,
    <<46, 119, 109, 118>>, <<46, 102, 108, 118>>, <<46, 112, 100, 102>>,
    <<46, 100, 111, 99>>, <<46, 100, 111, 99, 120>>, <<46, 120, 108, 115>>,
    <<46, 120, 108, 115, 120>>, <<46, 112, 112, 116>>, <<46, 112, 112, 116, 120>>,
    <<46, 98, 105, 110>>, <<46, 100, 97, 116>>, <<46, 100, 98>>,
    <<46, 115, 113, 108, 105, 116, 101>>, <<46, 115, 113, 108, 105, 116, 101, 51>>,
    <<46, 112, 121, 99>>, <<46, 99, 108, 97, 115, 115>>, <<46, 106, 97, 114>>
}

\* .git .idea .svn .hg .bzr node_modules .vscode __pycache__ .pytest_cache
\* build dist target
ignoreDirs == {
    <<46, 103, 105, 116>>, <<46, 105, 100, 101, 97>>, <<46, 115, 118, 110>>,
    <<46, 104, 103>>, <<46, 98, 122, 114>>,
    <<110, 111, 100, 101, 95, 109, 111, 100, 117, 108, 101, 115>>,
    <<46, 118, 115, 99, 111, 100, 101>>,
    <<95, 95, 112, 121, 99, 97, 99, 104, 101, 95, 95>>,
    <<46, 112, 121, 116, 101, 115, 116, 95, 99, 97, 99, 104, 101>>,
    <<98, 117, 105, 108, 100>>, <<100, 105, 115, 116>>,
    <<116, 97, 114, 103, 101, 116>>
}

\* An entry of the tree is named by the names below the search path (<<>> is the
\* search path itself).  The search path is one path element, so the base name
\* of Join(searchPath, names...) is the last name, or the search path.
BaseName(root, n) == IF n.path = <<>> THEN root ELSE n.path[Len(n.path)]

\* filepath.Rel(basePath, path), slash-separated: "." for the search path itself.
RECURSIVE JoinSlash(_)
JoinSlash(names) ==
    IF Len(names) = 1 THEN names[1]
    ELSE names[1] \o Slash \o JoinSlash(Tail(names))

RelPath(n) == IF n.path = <<>> THEN Dot ELSE JoinSlash(n.path)

\* filepath.Ext of a base name: from its last dot on, empty when it has none.
Ext(name) ==
    LET dots == {i \in 1..Len(name) : name[i] = 46}
    IN  IF dots = {} THEN <<>>
        ELSE SubSeq(name, CHOOSE i \in dots : \A j \in dots : j <= i, Len(name))

isHidden(name) == HasPrefix(name, Dot)

\* The directory check stopping after its first test, ".git" and ".idea".
shouldIgnoreDirectoryGitOnly(dirName) ==
    dirName \in {<<46, 103, 105, 116>>, <<46, 105, 100, 101, 97>>}

shouldIgnoreDirectory(dirName) == dirName \in ignoreDirs

isBinaryFileByExtension(name) == ToLower(Ext(name)) \in binaryExts

\* The content sniff looking at the first byte only.
isBinaryFileFirstByte(data) == Len(data) > 0 /\ data[1] = 0

\* file.Read of up to SniffSize bytes: an empty file reads (0, io.EOF), an error.
isBinaryFile(data) ==
    LET n == IF Len(data) < SniffSize THEN Len(data) ELSE SniffSize
    IN  IF n = 0 THEN FALSE ELSE \E i \in 1..n : data[i] = 0

\* strings.TrimSpace, for the ASCII white space \t \n \v \f \r and space.
IsSpace(b) == b \in {9, 10, 11, 12, 13, 32}

RECURSIVE TrimSpace(_)
TrimSpace(s) ==
    IF s = <<>> THEN s
    ELSE IF IsSpace(s[1]) THEN TrimSpace(Tail(s))
    ELSE IF IsSpace(s[Len(s)]) THEN TrimSpace(SubSeq(s, 1, Len(s) - 1))
    ELSE s

\* bufio.ScanLines: the token at the front of rest, a trailing \r dropped.
DropCR(s) == IF s # <<>> /\ s[Len(s)] = 13 THEN SubSeq(s, 1, Len(s) - 1) ELSE s

\* The length of the line at the front of a non-empty rest, without its "\n".
LineLen(rest) == LET i == Index(rest, <<10>>) IN IF i = -1 THEN Len(rest) ELSE i

\* The offset in rest just past that line.
LineEnd(rest) == LET i == Index(rest, <<10>>) IN IF i = -1 THEN Len(rest) ELSE i + 1

\* The lines of the ignore file that become patterns, in file order (the ignore
\* files of the trees below hold no line near bufio.MaxScanTokenSize).
RECURSIVE IgnoreLines(_)
IgnoreLines(rest) ==
    IF rest = <<>> THEN <<>>
    ELSE LET line == TrimSpace(DropCR(Slice(rest, 0, LineLen(rest))))
             more == IgnoreLines(Slice(rest, LineEnd(rest), Len(rest)))
         IN  IF line = <<>> \/ HasPrefix(line, <<35>>) THEN more ELSE <<line>> \o more

\* ".gitignore"
GitignoreName == <<46, 103, 105, 116, 105, 103, 110, 111, 114, 101>>

\* The patterns of the ignore file directly under the search path; none when it
\* is missing, cannot be opened, or the search path is no directory.
loadGitignoreFilter(t) ==
    LET fs == {n \in t.nodes : n.path = <<GitignoreName>> /\ ~n.dir /\ ~n.err /\ ~n.noOpen}
    IN  IF ~t.exists \/ fs = {} \/ \E r \in t.nodes : r.path = <<>> /\ ~r.dir
        THEN <<>>
        ELSE IgnoreLines((CHOOSE n \in fs : TRUE).data)

\* f is [nil, patterns]: gitignoreFilter != nil && gitignoreFilter.shouldIgnore(path).
shouldIgnore(f, n) ==
    /\ ~f.nil
    /\ \E i \in 1..Len(f.patterns) : matchGitignorePattern(RelPath(n), f.patterns[i])

----------------------------------------------------------------------------
(* The file systems and command lines the walk is run on.                  *)

File(path, data) == [path |-> path, dir |-> FALSE, err |-> FALSE, noOpen |-> FALSE, data |-> data]
Dir(path) == [path |-> path, dir |-> TRUE, err |-> FALSE, noOpen |-> FALSE, data |-> <<>>]

\* "ab\nAbc\nxy\n", "ab\n"
DataPlain == <<97, 98, 10, 65, 98, 99, 10, 120, 121, 10>>
DataOne == <<97, 98, 10>>
\* "xxxxxab\nab": the first line is shown truncated
DataLong == <<120, 120, 120, 120, 120, 97, 98, 10, 97, 98>>
\* "ab\nxxxxxxxxab\nab\n": the second line does not fit the scanner's buffer
DataHuge == <<97, 98, 10, 120, 120, 120, 120, 120, 120, 120, 120, 97, 98, 10, 97, 98, 10>>
\* "a\0\nab\n" and "abc\0\nab\n": a null byte inside and past the sniffed prefix
DataBinary == <<97, 0, 10, 97, 98, 10>>
DataLateNul == <<97, 98, 99, 0, 10, 97, 98, 10>>
\* "*.tmp\n# c\n\n sub/ \n"
DataIgnore == <<42, 46, 116, 109, 112, 10, 35, 32, 99, 10, 10, 32, 115, 117, 98, 47, 32, 10>>

\* "proj", ".cfg", "build", "nodir", "a.txt"
NameProj == <<112, 114, 111, 106>>
NameCfg == <<46, 99, 102, 103>>
NameBuild == <<98, 117, 105, 108, 100>>
NameNoDir == <<110, 111, 100, 105, 114>>
NameA == <<97, 46, 116, 120, 116>>

\* proj/{.hid/in.txt, .secret, a.txt, build/out.txt, z.txt}
TreeHidden ==
    [root |-> NameProj, exists |-> TRUE, nodes |-> {
        Dir(<<>>),
        File(<<NameA>>, DataPlain),
        File(<<<<46, 115, 101, 99, 114, 101, 116>>>>, DataOne),
        Dir(<<<<46, 104, 105, 100>>>>),
        File(<<<<46, 104, 105, 100>>, <<105, 110, 46, 116, 120, 116>>>>, DataOne),
        Dir(<<NameBuild>>),
        File(<<NameBuild, <<111, 117, 116, 46, 116, 120, 116>>>>, DataOne),
        File(<<<<122, 46, 116, 120, 116>>>>, DataOne)}]

\* proj/{.gitignore, cache.tmp, m.txt, pic.png, sub/f.txt}
TreeIgnore ==
    [root |-> NameProj, exists |-> TRUE, nodes |-> {
        Dir(<<>>),
        File(<<GitignoreName>>, DataIgnore),
        File(<<<<99, 97, 99, 104, 101, 46, 116, 109, 112>>>>, DataOne),
        File(<<<<109, 46, 116, 120, 116>>>>, DataPlain),
        File(<<<<112, 105, 99, 46, 112, 110, 103>>>>, DataOne),
        Dir(<<<<115, 117, 98>>>>),
        File(<<<<115, 117, 98>>, <<102, 46, 116, 120, 116>>>>, DataOne)}]

\* proj/{big.txt, build/out.txt, c.txt}: big.txt holds the over-long line
TreeHuge ==
    [root |-> NameProj, exists |-> TRUE, nodes |-> {
        Dir(<<>>),
        File(<<<<98, 105, 103, 46, 116, 120, 116>>>>, DataHuge),
        Dir(<<NameBuild>>),
        File(<<NameBuild, <<111, 117, 116, 46, 116, 120, 116>>>>, DataOne),
        File(<<<<99, 46, 116, 120, 116>>>>, DataOne)}]

\* proj/{bin.txt, late.txt, long.txt}
TreeContent ==
    [root |-> NameProj, exists |-> TRUE, nodes |-> {
        Dir(<<>>),
        File(<<<<98, 105, 110, 46, 116, 120, 116>>>>, DataBinary),
        File(<<<<108, 97, 116, 101, 46, 116, 120, 116>>>>, DataLateNul),
        File(<<<<108, 111, 110, 103, 46, 116, 120, 116>>>>, DataLong)}]

\* proj/{bad/x.txt, locked.txt, ok.txt}: bad cannot be listed, locked.txt not opened
TreeErrors ==
    [root |-> NameProj, exists |-> TRUE, nodes |-> {
        Dir(<<>>),
        [Dir(<<<<98, 97, 100>>>>) EXCEPT !.err = TRUE],
        File(<<<<98, 97, 100>>, <<120, 46, 116, 120, 116>>>>, DataOne),
        [File(<<<<108, 111, 99, 107, 101, 100, 46, 116, 120, 116>>>>, DataOne) EXCEPT !.noOpen = TRUE],
        File(<<<<111, 107, 46, 116, 120, 116>>>>, DataOne)}]

\* The same small directory {a.txt, .secret} given as ".", ".cfg" and "build".
TreeNamed(root) ==
    [root |-> root, exists |-> TRUE, nodes |-> {
        Dir(<<>>),
        File(<<NameA>>, DataPlain),
        File(<<<<46, 115, 101, 99, 114, 101, 116>>>>, DataOne)}]

\* A search path that is one regular file, and one that does not exist.
TreeFile == [root |-> NameA, exists |-> TRUE, nodes |-> {File(<<>>, DataPlain)}]
TreeMissing == [root |-> NameNoDir, exists |-> FALSE, nodes |-> {}]

Trees == {TreeHidden, TreeIgnore, TreeHuge, TreeContent, TreeErrors,
          TreeNamed(Dot), TreeNamed(NameCfg), TreeNamed(NameBuild), TreeNamed(NameProj),
          TreeFile, TreeMissing}

\* "ab", and "tr", which the trees hold only where a line is shown truncated
Patterns == {<<97, 98>>, <<116, 114>>}

\* Config after flag.Parse: nargs is len(flag.Args()); color is the resolved
\* "always" / "auto on a terminal".  The layout flags noHeading, lineNumber and
\* withFilename choose which of a record's fields are printed and are left out.
Configs ==
    [nargs : {2}, hidden : BOOLEAN, respectGitignore : BOOLEAN, ignoreCase : BOOLEAN,
     fixedStrings : BOOLEAN, color : BOOLEAN, pattern : Patterns]

DefaultConfig ==
    [nargs |-> 1, hidden |-> FALSE, respectGitignore |-> TRUE, ignoreCase |-> FALSE,
     fixedStrings |-> FALSE, color |-> FALSE, pattern |-> <<>>]

NoFile == [path |-> <<>>, dir |-> TRUE, err |-> TRUE, noOpen |-> TRUE, data |-> <<>>]

----------------------------------------------------------------------------
(* The walk.                                                               *)

\* sort.Strings' order on names: bytewise lexical.
LexLess(a, b) ==
    \E k \in 1..(Len(a) + 1) :
        /\ k <= Len(b)
        /\ SubSeq(a, 1, k - 1) = SubSeq(b, 1, k - 1)
        /\ (k = Len(a) + 1 \/ a[k] < b[k])

IsChild(d, n) == Len(n.path) = Len(d.path) + 1 /\ SubSeq(n.path, 1, Len(d.path)) = d.path

\* The entries below d, proper descendants at any depth.
IsBelow(d, n) == Len(n.path) > Len(d.path) /\ SubSeq(n.path, 1, Len(d.path)) = d.path

RECURSIVE SortByName(_)
SortByName(S) ==
    IF S = {} THEN <<>>
    ELSE LET m == CHOOSE x \in S : \A y \in S : x = y \/ LexLess(x.path[Len(x.path)], y.path[Len(y.path)])
         IN  <<m>> \o SortByName(S \ {m})

\* readDirNames: the entries of directory d, sorted by name.
Children(t, d) == SortByName({n \in t.nodes : IsChild(d, n)})

\* The directory branch with the hidden test left to the file branch.
SkipsDirNoHidden(t, c, f, d) ==
    \/ shouldIgnoreDirectory(BaseName(t.root, d))
    \/ shouldIgnore(f, d)

\* The directory checks applied below the search path only.
SkipsDirBelowRoot(t, c, f, d) ==
    /\ d.path # <<>>
    /\ \/ shouldIgnoreDirectory(BaseName(t.root, d))
       \/ (~c.hidden /\ isHidden(BaseName(t.root, d)))
       \/ shouldIgnore(f, d)

\* The callback's answer for a directory: TRUE is filepath.SkipDir.
SkipsDir(t, c, f, d) ==
    \/ shouldIgnoreDirectory(BaseName(t.root, d))
    \/ (~c.hidden /\ isHidden(BaseName(t.root, d)))
    \/ shouldIgnore(f, d)

\* The callback's filters for a file: TRUE is "return nil" before searchInFile.
SkipsFile(t, c, f, n) ==
    \/ (~c.hidden /\ isHidden(BaseName(t.root, n)))
    \/ shouldIgnore(f, n)
    \/ isBinaryFileByExtension(BaseName(t.root, n))

\* main(): fewer than two arguments is the usage error.
Usage ==
    /\ pc = "main"
    /\ config.nargs < 2
    /\ pc' = "done"
    /\ stderr' = Append(stderr, "Usage: rg [options] -- pattern path")
    /\ exitCode' = 1
    /\ UNCHANGED <<txt, wild, tree, config, filter, todo, cur, scanPos, lineNum,
                   stdout, visited, pruned, scanned, tooLong>>

\* main() calls search(): the ignore filter is loaded and filepath.Walk Lstats
\* the search path.
StartSearch ==
    /\ pc = "main"
    /\ config.nargs >= 2
    /\ filter' = IF config.respectGitignore
                 THEN [nil |-> FALSE, patterns |-> loadGitignoreFilter(tree)]
                 ELSE [nil |-> TRUE, patterns |-> <<>>]
    /\ todo' = IF tree.exists THEN SortByName({n \in tree.nodes : n.path = <<>>}) ELSE <<>>
    /\ pc' = "walk"
    /\ UNCHANGED <<txt, wild, tree, config, cur, scanPos, lineNum,
                   stdout, stderr, exitCode, visited, pruned, scanned, tooLong>>

\* The callback on an entry filepath.Walk could not Lstat or list (err != nil):
\* it returns nil and the walk goes on past the entry.
VisitError ==
    /\ pc = "walk" /\ todo # <<>>
    /\ Head(todo).err
    /\ visited' = visited \cup {Head(todo)}
    /\ todo' = Tail(todo)
    /\ UNCHANGED <<txt, wild, tree, config, pc, filter, cur, scanPos, lineNum,
                   stdout, stderr, exitCode, pruned, scanned, tooLong>>

\* The callback on a directory: SkipDir drops the directory's entries, nil
\* makes the walk go through them, in name order, before what follows.
VisitDir ==
    /\ pc = "walk" /\ todo # <<>>
    /\ LET d == Head(todo) IN
        /\ ~d.err /\ d.dir
        /\ visited' = visited \cup {d}
        /\ IF SkipsDir(tree, config, filter, d)
           THEN /\ pruned' = pruned \cup {d}
                /\ todo' = Tail(todo)
           ELSE /\ pruned' = pruned
                /\ todo' = Children(tree, d) \o Tail(todo)
    /\ UNCHANGED <<txt, wild, tree, config, pc, filter, cur, scanPos, lineNum,
                   stdout, stderr, exitCode, scanned, tooLong>>

\* The callback on a file: the three filters, then searchInFile up to its
\* scanner: the open, the content sniff, the seek back to the start.
VisitFile ==
    /\ pc = "walk" /\ todo # <<>>
    /\ LET n == Head(todo) IN
        /\ ~n.err /\ ~n.dir
        /\ visited' = visited \cup {n}
        /\ todo' = Tail(todo)
        /\ IF SkipsFile(tree, config, filter, n)
           THEN UNCHANGED <<pc, cur, scanPos, lineNum, scanned>>
           ELSE /\ scanned' = scanned \cup {n}
                /\ IF n.noOpen \/ isBinaryFile(n.data)
                   THEN UNCHANGED <<pc, cur, scanPos, lineNum>>
                   ELSE /\ pc' = "scan"
                        /\ cur' = n
                        /\ scanPos' = 0
                        /\ lineNum' = 0
    /\ UNCHANGED <<txt, wild, tree, config, filter, stdout, stderr, exitCode, pruned, tooLong>>

\* The line as searchInFile passes it on: cut to DisplayLimit bytes plus the
\* truncation marker when longer.
Truncated(line) ==
    IF Len(line) > DisplayLimit
    THEN Slice(line, 0, DisplayLimit) \o TruncationMarker
    ELSE line

\* The match test of the scan loop, on the line read by the scanner.
LineMatches(raw, c) ==
    matchesPattern(Truncated(raw), c.pattern, c.fixedStrings, c.ignoreCase)

\* The line counter advancing on matching lines only.
NextLineNumOnMatch(n, matched) == IF matched THEN n + 1 ELSE n

\* lineNum++ at the head of the scan loop, before the match test.
NextLineNum(n, matched) == n + 1

\* One iteration of searchInFile's scan loop, with what follows its end: at
\* the end of the file searchInFile returns nil and the walk goes on; a line
\* that does not fit the buffer ends the scan with bufio.ErrTooLong, which the
\* callback returns, filepath.Walk and search() pass up, and main() reports
\* before exiting 1; a panic in the highlighter ends the process with status 2.
ScanLine ==
    /\ pc = "scan"
    /\ LET rest == Slice(cur.data, scanPos, Len(cur.data)) IN
       IF rest = <<>>
       THEN /\ pc' = "walk"
            /\ cur' = NoFile
            /\ UNCHANGED <<scanPos, lineNum, stdout, stderr, exitCode, tooLong>>
       ELSE IF LineLen(rest) >= MaxLineSize
       THEN /\ pc' = "done"
            /\ tooLong' = tooLong \cup {cur}
            /\ stderr' = Append(stderr, "Error: bufio.Scanner: token too long")
            /\ exitCode' = 1
            /\ UNCHANGED <<cur, scanPos, lineNum, stdout>>
       ELSE LET raw == DropCR(Slice(rest, 0, LineLen(rest)))
                line == Truncated(raw)
                shown == IF config.color
                         THEN highlightMatches(line, config.pattern,
                                               config.fixedStrings, config.ignoreCase)
                         ELSE [out |-> line, panic |-> FALSE, steps |-> <<>>]
            IN  /\ lineNum' = NextLineNum(lineNum, LineMatches(raw, config))
                /\ scanPos' = scanPos + LineEnd(rest)
                /\ UNCHANGED <<cur, tooLong>>
                /\ IF ~LineMatches(raw, config)
                   THEN UNCHANGED <<pc, stdout, stderr, exitCode>>
                   ELSE IF shown.panic
                   THEN /\ pc' = "done"
                        /\ stderr' = Append(stderr, "panic: runtime error: slice bounds out of range")
                        /\ exitCode' = 2
                        /\ UNCHANGED stdout
                   ELSE /\ stdout' = Append(stdout, [file |-> cur,
                                                     lineNum |-> NextLineNum(lineNum, TRUE),
                                                     line |-> line, shown |-> shown.out])
                        /\ UNCHANGED <<pc, stderr, exitCode>>
    /\ UNCHANGED <<txt, wild, tree, config, filter, todo, visited, pruned, scanned>>

\* filepath.Walk has no entry left (or could not Lstat the search path, which
\* the callback answers with nil): search() returns nil and main() returns.
WalkDone ==
    /\ pc = "walk" /\ todo = <<>>
    /\ pc' = "done"
    /\ exitCode' = 0
    /\ UNCHANGED <<txt, wild, tree, config, filter, todo, cur, scanPos, lineNum,
                   stdout, stderr, visited, pruned, scanned, tooLong>>

Init ==
    /\ txt = TxtIdle
    /\ wild = WildIdle
    /\ tree \in Trees
    /\ config \in Configs \cup {DefaultConfig, [DefaultConfig EXCEPT !.nargs = 0]}
    /\ pc = "main"
    /\ filter = [nil |-> TRUE, patterns |-> <<>>]
    /\ todo = <<>>
    /\ cur = NoFile
    /\ scanPos = 0
    /\ lineNum = 0
    /\ stdout = <<>>
    /\ stderr = <<>>
    /\ exitCode = -1
    /\ visited = {}
    /\ pruned = {}
    /\ scanned = {}
    /\ tooLong = {}

Next ==
    \/ Usage
    \/ StartSearch
    \/ VisitError
    \/ VisitDir
    \/ VisitFile
    \/ ScanLine
    \/ WalkDone

Spec == Init /\ [][Next]_vars

----------------------------------------------------------------------------
(* The text engine run on its own: matchesPattern, then highlightMatches   *)
(* as printMatch calls it, then highlightMatches on its own output.        *)

\* The set of sequences over S of length lo..hi.
SeqsOf(S, lo, hi) == UNION {[1..n -> S] : n \in lo..hi}

\* Concatenation of a sequence of byte strings.
RECURSIVE Flatten(_)
Flatten(ss) == IF ss = <<>> THEN <<>> ELSE Head(ss) \o Flatten(Tail(ss))

\* The runes lines and patterns are built from: "a", "A", U+212A, U+023A.
Runes == {<<97>>, <<65>>, <<226, 132, 170>>, <<200, 186>>}

TextOfRunes(n) == {Flatten(rs) : rs \in SeqsOf(Runes, 0, n)}

\* What the highlighter has not produced yet.
NoResult == [out |-> <<>>, panic |-> FALSE, steps |-> <<>>]

\* The walk's variables in the runs of the text engine and of the ignore filter.
WalkIdle ==
    /\ tree = TreeMissing
    /\ config = DefaultConfig
    /\ pc = "done"
    /\ filter = [nil |-> TRUE, patterns |-> <<>>]
    /\ todo = <<>>
    /\ cur = NoFile
    /\ scanPos = 0
    /\ lineNum = 0
    /\ stdout = <<>>
    /\ stderr = <<>>
    /\ exitCode = 0
    /\ visited = {}
    /\ pruned = {}
    /\ scanned = {}
    /\ tooLong = {}

TextInit ==
    /\ txt \in [stage : {"input"}, line : TextOfRunes(MaxLineRunes),
                pattern : TextOfRunes(MaxPatRunes),
                ignoreCase : BOOLEAN, fixedStrings : BOOLEAN,
                matched : {FALSE}, once : {NoResult}, twice : {NoResult}]
    /\ wild = WildIdle
    /\ WalkIdle

MatchLine ==
    /\ txt.stage = "input"
    /\ txt' = [txt EXCEPT !.stage = "matched",
                          !.matched = matchesPattern(txt.line, txt.pattern,
                                                     txt.fixedStrings, txt.ignoreCase)]
    /\ UNCHANGED <<wild, walkVars>>

Highlight ==
    /\ txt.stage = "matched"
    /\ txt' = [txt EXCEPT !.stage = "once",
                          !.once = highlightMatches(txt.line, txt.pattern,
                                                    txt.fixedStrings, txt.ignoreCase)]
    /\ UNCHANGED <<wild, walkVars>>

HighlightAgain ==
    /\ txt.stage = "once"
    /\ ~txt.once.panic
    /\ txt' = [txt EXCEPT !.stage = "twice",
                          !.twice = highlightMatches(txt.once.out, txt.pattern,
                                                     txt.fixedStrings, txt.ignoreCase)]
    /\ UNCHANGED <<wild, walkVars>>

TextNext ==
    \/ MatchLine
    \/ Highlight
    \/ HighlightAgain

SpecText == TextInit /\ [][TextNext]_vars

----------------------------------------------------------------------------
(* The ignore filter's matcher run on its own.                             *)

\* A cleaned slash-separated relative path, as filepath.Rel and ToSlash give
\* it: no empty element, and no "." or ".." element below the first.
ValidRel(p) ==
    /\ p # <<>>
    /\ p[1] # 47 /\ p[Len(p)] # 47
    /\ \A i \in 1..(Len(p) - 1) : ~(p[i] = 47 /\ p[i + 1] = 47)
    /\ \A i \in 1..Len(p) :
          p[i] = 46 => \/ (i > 1 /\ p[i - 1] \notin {47, 46})
                       \/ (i < Len(p) /\ p[i + 1] \notin {47, 46})

\* "build/output.log", "output.logx", "*.log"
PathOutputLog == <<98, 117, 105, 108, 100, 47, 111, 117, 116, 112, 117, 116, 46, 108, 111, 103>>
PathOutputLogx == <<111, 117, 116, 112, 117, 116, 46, 108, 111, 103, 120>>
PatternStarLog == <<42, 46, 108, 111, 103>>

\* Paths over "a", ".", "*", "/" and patterns over the same bytes; "!a*" stands
\* for the negated patterns.
WildPaths ==
    {p \in SeqsOf({97, 46, 42, 47}, 1, MaxWildLen - 1) : ValidRel(p)}
        \cup {Dot, PathOutputLog, PathOutputLogx}

WildPatterns ==
    SeqsOf({97, 46, 42, 47}, 1, MaxWildLen) \cup {PatternStarLog, <<33, 97, 42>>}

WildInit ==
    /\ wild \in [stage : {"input"}, path : WildPaths, pattern : WildPatterns,
                 result : {FALSE}]
    /\ txt = TxtIdle
    /\ WalkIdle

MatchIgnore ==
    /\ wild.stage = "input"
    /\ wild' = [wild EXCEPT !.stage = "matched",
                            !.result = matchGitignorePattern(wild.path, wild.pattern)]
    /\ UNCHANGED <<txt, walkVars>>

WildNext == MatchIgnore

SpecWild == WildInit /\ [][WildNext]_vars

----------------------------------------------------------------------------
(* Vocabulary of the properties below, stated apart from the operators of  *)
(* the model.                                                              *)

StartsWithDot(name) == Len(name) > 0 /\ name[1] = 46

\* The entry itself, the search path, or a directory above the entry has a base
\* name starting with ".".
OnHiddenPath(n) ==
    \/ StartsWithDot(tree.root)
    \/ \E i \in 1..Len(n.path) : StartsWithDot(n.path[i])

HasRecord(n, i) == \E k \in 1..Len(stdout) : stdout[k].file = n /\ stdout[k].lineNum = i

HasRecords(n) == \E k \in 1..Len(stdout) : stdout[k].file = n

\* sub occurs in s as a contiguous run of bytes.
IsSubstring(sub, s) ==
    \E i \in 0..Len(s) : \E j \in i..Len(s) : SubSeq(s, i + 1, j) = sub

\* The lines the scanner reads from data, in order, up to the end or to the
\* first line that does not fit its buffer.
RECURSIVE LinesRead(_)
LinesRead(rest) ==
    IF rest = <<>> \/ LineLen(rest) >= MaxLineSize THEN <<>>
    ELSE <<DropCR(Slice(rest, 0, LineLen(rest)))>>
             \o LinesRead(Slice(rest, LineEnd(rest), Len(rest)))

\* A file the walk's filters let through: no directory above it is pruned or
\* unreadable, and the file filters pass it.
Candidate(n) ==
    /\ n \in tree.nodes /\ ~n.dir /\ ~n.err
    /\ ~SkipsFile(tree, config, filter, n)
    /\ \A d \in tree.nodes :
          IsBelow(d, n) => d.dir /\ ~d.err /\ ~SkipsDir(tree, config, filter, d)

\* The line contains the pattern under the configured case rule.
PatternIn(raw) ==
    IF config.ignoreCase THEN IsSubstring(ToLower(config.pattern), ToLower(raw))
    ELSE IsSubstring(config.pattern, raw)

\* The output with both emphasis markers taken out.
Strip(s) == ReplaceAll(ReplaceAll(s, ColorRed, <<>>), ColorReset, <<>>)

----------------------------------------------------------------------------
(* C1: with hidden=false no file whose base name starts with ".", and no   *)
(* file under a directory (the search path included) whose base name       *)
(* starts with ".", is scanned or has a record; with hidden=true a visited *)
(* hidden file that the ignore filter and the extension list let through   *)
(* is scanned, and a visited hidden directory that the denylist and the    *)
(* ignore filter let through is not pruned.                                *)
C1_HiddenExclusion ==
    /\ ~config.hidden =>
          /\ \A n \in scanned : ~OnHiddenPath(n)
          /\ \A k \in 1..Len(stdout) : ~OnHiddenPath(stdout[k].file)
    /\ config.hidden =>
          \A n \in visited :
             (~n.err /\ StartsWithDot(BaseName(tree.root, n))) =>
                IF n.dir
                THEN (BaseName(tree.root, n) \notin ignoreDirs /\ ~shouldIgnore(filter, n))
                         => n \notin pruned
                ELSE (~shouldIgnore(filter, n) /\ ~isBinaryFileByExtension(BaseName(tree.root, n)))
                         => n \in scanned

\* A finished walk with hidden=false that went past a hidden file holding the
\* pattern, left it unscanned, and printed records of other files.
C1_Witness ==
    /\ pc = "done" /\ exitCode = 0 /\ ~config.hidden
    /\ stdout # <<>>
    /\ \E n \in visited :
          /\ ~n.dir /\ StartsWithDot(BaseName(tree.root, n))
          /\ IsSubstring(config.pattern, n.data)
          /\ n \notin scanned
    /\ \E d \in pruned : StartsWithDot(BaseName(tree.root, d)) /\ d.path # <<>>

(* C2: when a line of a candidate file does not fit the scanner's buffer,  *)
(* only that file is abandoned: when the process ends, every candidate     *)
(* file has been scanned and every matching line the scanner can read has  *)
(* its record, and the exit status is 0.                                   *)
C2_OnlyThatFileAbandoned ==
    (pc = "done" /\ config.nargs >= 2) =>
        /\ exitCode = 0
        /\ \A n \in tree.nodes :
              Candidate(n) =>
                 /\ n \in scanned
                 /\ (~n.noOpen /\ ~isBinaryFile(n.data)) =>
                       \A i \in 1..Len(LinesRead(n.data)) :
                          LineMatches(LinesRead(n.data)[i], config) => HasRecord(n, i)

(* C3: with two arguments and a search path that does not exist, the       *)
(* process prints a message and ends with a non-zero exit code.            *)
C3_MissingRootFails ==
    (pc = "done" /\ config.nargs >= 2 /\ ~tree.exists) =>
        (exitCode # 0 /\ stderr # <<>>)

(* C4: for every scanned line longer than the display limit a record is    *)
(* printed exactly when the pattern occurs in the full line as read;       *)
(* truncation changes the displayed text only.                             *)
C4_MatchOnFullLine ==
    (pc = "done" /\ exitCode = 0) =>
        \A n \in scanned :
           (~n.noOpen /\ ~isBinaryFile(n.data)) =>
              \A i \in 1..Len(LinesRead(n.data)) :
                 Len(LinesRead(n.data)[i]) > DisplayLimit =>
                    (HasRecord(n, i) <=> PatternIn(LinesRead(n.data)[i]))

(* C9: a scanned file with a null byte among its first SniffSize bytes has *)
(* no record, whatever the pattern and the flags.                          *)
C9_BinaryHasNoRecord ==
    \A n \in tree.nodes :
       (\E i \in 1..Len(n.data) : i <= SniffSize /\ n.data[i] = 0) => ~HasRecords(n)

\* A finished walk that handed searchInFile a file with a null byte in its
\* sniffed prefix and the pattern on a later line, and printed other records.
C9_Witness ==
    /\ pc = "done" /\ exitCode = 0 /\ stdout # <<>>
    /\ \E n \in scanned :
          /\ \E i \in 1..SniffSize : i <= Len(n.data) /\ n.data[i] = 0
          /\ \E i \in 1..Len(LinesRead(n.data)) : i > 1 /\ PatternIn(LinesRead(n.data)[i])
          /\ ~HasRecords(n)

(* C10: a visited directory is pruned when its name is in the denylist (in *)
(* every configuration), or hidden=false and its name starts with ".", or  *)
(* the enabled ignore filter flags it; nothing below a pruned directory is *)
(* ever visited, scanned or printed; and the step that prunes a directory  *)
(* removes that directory alone from the entries still to visit, so the    *)
(* walk goes on with its siblings.                                         *)
C10_PruneState ==
    /\ \A d \in visited :
          (d.dir /\ ~d.err /\ (\/ BaseName(tree.root, d) \in ignoreDirs
                               \/ (~config.hidden /\ StartsWithDot(BaseName(tree.root, d)))
                               \/ shouldIgnore(filter, d)))
             => d \in pruned
    /\ \A d \in pruned : \A n \in tree.nodes :
          IsBelow(d, n) =>
             /\ n \notin visited /\ n \notin scanned /\ ~HasRecords(n)
             /\ \A k \in 1..Len(todo) : todo[k] # n

C10_PruneStep ==
    pruned' # pruned =>
        /\ todo' = Tail(todo)
        /\ \A s \in tree.nodes :
              (\E d \in pruned' \ pruned : d.path # <<>> /\ s # d
                    /\ Len(s.path) = Len(d.path)
                    /\ SubSeq(s.path, 1, Len(s.path) - 1) = SubSeq(d.path, 1, Len(d.path) - 1))
                 => (s \in visited \/ \E k \in 1..Len(todo') : todo'[k] = s)

C10_Pruning == [](C10_PruneState) /\ [][C10_PruneStep]_vars

\* A finished walk with hidden=true and the ignore filter off that pruned a
\* denylisted directory holding a file with the pattern, and printed a record
\* of a sibling visited after it.
C10_Witness ==
    /\ pc = "done" /\ exitCode = 0 /\ config.hidden /\ ~config.respectGitignore
    /\ \E d \in pruned :
          /\ d.path # <<>> /\ BaseName(tree.root, d) \in ignoreDirs
          /\ \E n \in tree.nodes : IsBelow(d, n) /\ IsSubstring(config.pattern, n.data)
          /\ \E s \in scanned :
                /\ Len(s.path) = Len(d.path) /\ HasRecords(s)
                /\ LexLess(BaseName(tree.root, d), BaseName(tree.root, s))

----------------------------------------------------------------------------
(* Properties of the text engine and of the ignore matcher.                *)

StartsWith(s, p) == Len(p) <= Len(s) /\ \A i \in 1..Len(p) : s[i] = p[i]

EndsWith(s, p) == Len(p) <= Len(s) /\ \A i \in 1..Len(p) : s[Len(s) - Len(p) + i] = p[i]

\* The number of "*" in pattern.
Stars(pattern) == Cardinality({i \in 1..Len(pattern) : pattern[i] = 42})

(* C5: for a pattern that, after one leading "/" is stripped, contains "*" *)
(* and neither starts with "!" nor ends with "/": "*" matches every path;  *)
(* with exactly one "*" it matches exactly the paths that start with the   *)
(* text before the "*" and end with the text after it; with two or more    *)
(* "*" it matches no path.                                                 *)
C5_WildcardShapes ==
    LET q == IF wild.pattern[1] = 47 THEN Tail(wild.pattern) ELSE wild.pattern
        k == CHOOSE i \in 1..Len(q) : q[i] = 42
    IN  (/\ wild.stage = "matched"
         /\ Stars(q) >= 1
         /\ q[1] # 33 /\ q[Len(q)] # 47)
        => wild.result =
              IF Stars(q) >= 2 THEN FALSE
              ELSE /\ StartsWith(wild.path, SubSeq(q, 1, k - 1))
                   /\ EndsWith(wild.path, SubSeq(q, k + 1, Len(q)))

\* The leftmost spans of line whose lower-cased text is the lower-cased
\* pattern, each wrapped in the markers with its own bytes.
RECURSIVE EmphasizeSpans(_, _)
EmphasizeSpans(line, pattern) ==
    LET spans == {ij \in (0..Len(line)) \X (0..Len(line)) :
                     ij[1] < ij[2] /\ ToLower(Slice(line, ij[1], ij[2])) = ToLower(pattern)}
    IN  IF spans = {} THEN line
        ELSE LET ij == CHOOSE x \in spans :
                           \A y \in spans : x[1] < y[1] \/ (x[1] = y[1] /\ x[2] <= y[2])
             IN  Slice(line, 0, ij[1]) \o ColorRed \o Slice(line, ij[1], ij[2]) \o ColorReset
                    \o EmphasizeSpans(Slice(line, ij[2], Len(line)), pattern)

(* C6: with ignoreCase=true the highlighter returns the line with exactly  *)
(* the spans whose lower-cased text equals the lower-cased pattern wrapped *)
(* in the markers, each span in the line's own bytes, and the output with  *)
(* the markers removed is the line.                                        *)
C6_HighlightKeepsCase ==
    (txt.stage \in {"once", "twice"} /\ txt.ignoreCase /\ txt.pattern # <<>>) =>
        /\ ~txt.once.panic
        /\ txt.once.out = EmphasizeSpans(txt.line, txt.pattern)
        /\ Strip(txt.once.out) = txt.line

\* The offsets at which the pattern occurs in the line, under the run's case rule.
Occurrences ==
    LET l == IF txt.ignoreCase THEN ToLower(txt.line) ELSE txt.line
        p == IF txt.ignoreCase THEN ToLower(txt.pattern) ELSE txt.pattern
    IN  {i \in 0..(Len(l) - Len(p)) : SubSeq(l, i + 1, i + Len(p)) = p}

(* C7: when the occurrences of the pattern in the line neither overlap nor *)
(* touch, highlighting the highlighted line again, with the same pattern   *)
(* and mode, adds no second pair of markers, and the output with the       *)
(* markers removed is the line.                                            *)
C7_HighlightIdempotent ==
    (/\ txt.stage = "twice" /\ txt.pattern # <<>>
     /\ \A i \in Occurrences : \A j \in Occurrences : i < j => j > i + Len(txt.pattern))
    => /\ ~txt.twice.panic
       /\ txt.twice.out = txt.once.out
       /\ Strip(txt.twice.out) = txt.line

(* C8: matchesPattern is true exactly when the pattern is a contiguous     *)
(* substring of the line (ignoreCase=false), or the lower-cased pattern of *)
(* the lower-cased line (ignoreCase=true), and fixedStrings never changes  *)
(* the result.                                                             *)
C8_MatchIsSubstring ==
    txt.stage \in {"matched", "once", "twice"} =>
        /\ txt.matched = IF txt.ignoreCase
                         THEN IsSubstring(ToLower(txt.pattern), ToLower(txt.line))
                         ELSE IsSubstring(txt.pattern, txt.line)
        /\ txt.matched = matchesPattern(txt.line, txt.pattern, ~txt.fixedStrings, txt.ignoreCase)

\* A match that only the case folding makes: the pattern in its own case is
\* not in the line, and fixedStrings is off.
C8_Witness ==
    /\ txt.stage = "matched" /\ txt.matched
    /\ txt.ignoreCase /\ ~txt.fixedStrings
    /\ txt.pattern # <<>>
    /\ ~IsSubstring(txt.pattern, txt.line)
    /\ ~IsSubstring(txt.pattern, ToLower(txt.line))

----------------------------------------------------------------------------
(* Order of the records.                                                   *)

\* Bytewise order on names.
BytesLess(a, b) ==
    \E k \in 1..(Len(a) + 1) :
        /\ k <= Len(b)
        /\ \A i \in 1..(k - 1) : a[i] = b[i]
        /\ (k > Len(a) \/ a[k] < b[k])

\* Entry a comes before entry b in a depth-first walk that takes the entries
\* of a directory in name order: a is above b, or where their paths part a's
\* name is the smaller.
WalkBefore(a, b) ==
    \E k \in 1..(Len(a.path) + 1) :
        /\ k <= Len(b.path)
        /\ \A i \in 1..(k - 1) : a.path[i] = b.path[i]
        /\ (k > Len(a.path) \/ BytesLess(a.path[k], b.path[k]))

(* C11: the records are in walk order, then line order: of two records the *)
(* earlier is of a file the walk visits earlier, or of the same file and a *)
(* smaller line number (so no line is printed twice); the records of one   *)
(* file are contiguous; a record's line number is the 1-based position in  *)
(* its file of the line it shows; and while a file is scanned lineNum is   *)
(* the number of lines read, matching or not.                              *)
C11_RecordOrder ==
    /\ \A k \in 1..Len(stdout) : \A l \in 1..Len(stdout) :
          k < l =>
             IF stdout[k].file = stdout[l].file
             THEN /\ stdout[k].lineNum < stdout[l].lineNum
                  /\ \A m \in k..l : stdout[m].file = stdout[k].file
             ELSE WalkBefore(stdout[k].file, stdout[l].file)
    /\ \A k \in 1..Len(stdout) :
          LET lines == LinesRead(stdout[k].file.data)
              i == stdout[k].lineNum
          IN  /\ i >= 1 /\ i <= Len(lines)
              /\ stdout[k].line =
                    IF Len(lines[i]) > DisplayLimit
                    THEN SubSeq(lines[i], 1, DisplayLimit) \o TruncationMarker
                    ELSE lines[i]
    /\ pc = "scan" => lineNum = Len(LinesRead(SubSeq(cur.data, 1, scanPos)))

\* A finished walk that printed records of two files, two of them of one file,
\* and one of a second line whose first line has no record.
C11_Witness ==
    /\ pc = "done" /\ exitCode = 0
    /\ \E k \in 1..Len(stdout) : \E l \in 1..Len(stdout) :
          k < l /\ stdout[k].file # stdout[l].file
    /\ \E k \in 1..Len(stdout) : \E l \in 1..Len(stdout) :
          k < l /\ stdout[k].file = stdout[l].file
    /\ \E k \in 1..Len(stdout) :
          stdout[k].lineNum = 2 /\ ~HasRecord(stdout[k].file, 1)

----------------------------------------------------------------------------
(* The search path itself.                                                 *)

\* The search path is a directory that the walk can stat.
RootIsDir ==
    /\ tree.exists
    /\ \E d \in tree.nodes : d.path = <<>> /\ d.dir /\ ~d.err

\* The search path's own name is hidden and hidden entries are not asked for,
\* or it is a name of the built-in directory list.
RootIsPruned ==
    \/ (~config.hidden /\ StartsWithDot(tree.root))
    \/ tree.root \in ignoreDirs

(* C12: the directory checks apply to the search path itself: when it is a *)
(* directory whose name starts with "." (as "." does) and hidden=false, or *)
(* whose name is in the built-in list, no entry below it is visited, no    *)
(* file is scanned, no record is printed, nothing is reported, and the run *)
(* ends with status 0 once the search path has been visited.               *)
C12_RootPruned ==
    (config.nargs >= 2 /\ RootIsDir /\ RootIsPruned) =>
        /\ scanned = {} /\ stdout = <<>> /\ stderr = <<>>
        /\ \A n \in visited : n.path = <<>>
        /\ visited # {} => (pruned = visited /\ todo = <<>>)
        /\ exitCode \in {-1, 0}
        /\ pc \in {"main", "walk", "done"}
        /\ pc = "done" => (exitCode = 0 /\ visited # {})

\* A finished search of "." without --hidden, a file under it holding the
\* pattern; and the same for a search path named in the built-in list.
C12_Witness ==
    /\ pc = "done" /\ exitCode = 0
    /\ RootIsDir /\ RootIsPruned
    /\ \E d \in pruned : d.path = <<>>
    /\ \E n \in tree.nodes : ~n.dir /\ IsSubstring(config.pattern, n.data)
    /\ \/ (tree.root = Dot /\ ~config.hidden)
       \/ (tree.root \in ignoreDirs /\ config.hidden)

----------------------------------------------------------------------------
(* Slice bounds of the case-insensitive highlighter.                       *)

(* C13: for every line and every non-empty pattern, lower-cased forms of a *)
(* different byte length included, highlightIgnoreCase ends without a      *)
(* slice out of range: lastIndex grows strictly from one iteration to the  *)
(* next and is at most the length of the line and of its lower-cased copy, *)
(* and the output with the markers removed is the line (the tail after the *)
(* last span is appended as it is).                                        *)
C13_HighlightInBounds ==
    (txt.stage \in {"once", "twice"} /\ txt.ignoreCase /\ txt.pattern # <<>>) =>
        LET steps == txt.once.steps IN
        /\ ~txt.once.panic
        /\ \A i \in 1..(Len(steps) - 1) : steps[i] < steps[i + 1]
        /\ \A i \in 1..Len(steps) :
              steps[i] <= Len(txt.line) /\ steps[i] <= Len(ToLower(txt.line))
        /\ Strip(txt.once.out) = txt.line

====
